---- MODULE Spec2Model ----
(***************************************************************************)
(* State-machine model of aihwkit's AnalogContext (optim/context.py) and   *)
(* of the autograd dispatcher AnalogFunction (simulator/tiles/functions.py)*)
(*                                                                         *)
(* The model follows one context object (Obj) through its life and the     *)
(* tile wrapper objects (Tile) it gets bound to; one tile exists at the    *)
(* start and migrations may create more.  A plain Parameter is a value     *)
(* (Ret).  The tile backend is external to the two files: its routines are *)
(* modelled by the record of the calls made on it and by the outcomes its  *)
(* migration routines can have (return the same object, return a new tile, *)
(* or raise).                                                              *)
(***************************************************************************)
EXTENDS Integers, Sequences, FiniteSets, Bags

\* ------------------------------------------------------------------ bounds
NTile == 2         \* tile wrapper objects that can exist
MaxTrace == 2      \* trace pairs held by all contexts together
MaxPending == 2    \* saved call states (forward done, graph still alive)
MaxOps == 5        \* operations performed in one run

Obj == {1}                     \* the context under study (one per weight tensor)
Tile == 1..NTile
None == 0
Val == {1, 2}                  \* contents of input and gradient tensors
Shape == {1, 2}                \* shapes of shared-weight tensors
Device == {"cpu", "cuda"}
TileWeights == {0}             \* contents the tile hands out in get_weights()
UserWeights == {1}             \* contents a caller writes with set_data()

VARIABLES
    cls,                 \* Obj -> "free" | "AnalogContext"
    data,                \* Obj -> tensor [val, dev]        (Parameter.data)
    requires_grad,       \* Obj -> BOOLEAN
    analog_tile,         \* Obj -> Tile or None             (self.analog_tile)
    use_torch_update,    \* Obj -> BOOLEAN
    use_indexed,         \* Obj -> BOOLEAN
    analog_input,        \* Obj -> sequence of tensors
    analog_grad_output,  \* Obj -> sequence of tensors
    tile_alive,          \* Tile -> BOOLEAN: the tile object exists
    is_cuda,             \* Tile -> BOOLEAN                 (analog_tile.is_cuda)
    analog_ctx,          \* Tile -> Obj or None             (analog_tile.analog_ctx)
    delta_weights,       \* Tile -> Shape or None: the delta-weight target
    saved,               \* bag of saved call states (the autograd ctx objects)
    last,                \* what the last operation returned and called
    nops,                \* number of operations performed so far
    pure,                \* history: Obj -> only unshared pairs since the last reset
    nfwd,                \* history: Obj -> forward calls of those pairs
    npairs,              \* history: Obj -> backward calls of those pairs
    ndef                 \* history: Obj -> deferred backwards since the last reset

ctxVars == <<cls, data, requires_grad, analog_tile, use_torch_update, use_indexed,
             analog_input, analog_grad_output>>
tileVars == <<tile_alive, is_cuda, analog_ctx, delta_weights>>
histVars == <<pure, nfwd, npairs, ndef>>
vars == <<ctxVars, tileVars, saved, last, nops, histVars>>

\* ----------------------------------------------------------------- helpers
Tensor(v, d) == [val |-> v, dev |-> d]

DeviceOf(t) == IF is_cuda[t] THEN "cuda" ELSE "cpu"

\* Tensor.cpu() / Tensor.to(device): same contents, on the target device.
ToDevice(x, d) == [x EXCEPT !.dev = d]

Contexts == {o \in Obj : cls[o] = "AnalogContext"}
LiveTiles == {t \in Tile : tile_alive[t]}

\* analog_tile.tile.get_weights(): the tile's weights; the backend decides
\* whether an accelerator tile hands them out on the host or on its device.
get_weights(t) == {Tensor(w, d) : w \in TileWeights, d \in {"cpu", DeviceOf(t)}}

\* What an operation hands back: nothing, the context itself, a plain
\* Parameter (with the attributes it carries) or backward's weight gradient.
NoTensor == Tensor(0, "cpu")
Ret(kind, d, t, tr, sh) ==
    [kind |-> kind, data |-> d, analog_tile |-> t, trace |-> tr, shape |-> sh]
NoRet == Ret("none", NoTensor, None, <<>>, None)
SelfRet == Ret("self", NoTensor, None, <<>>, None)

\* What the last operation did towards its caller and its tile: whether it
\* raised, how often it invoked reset(), what it returned, the tile routines
\* it called, in order, and the input tensor it handed to the tile's update
\* routine (NoTensor when it called none).
Op(raised, resets, ret, calls) ==
    [raised |-> raised, resets |-> resets, ret |-> ret, calls |-> calls,
     update_input |-> NoTensor]

RECURSIVE SumLen(_)
SumLen(S) == IF S = {} THEN 0
             ELSE LET o == CHOOSE x \in S : TRUE
                  IN Len(analog_input[o]) + SumLen(S \ {o})
TotalTrace == SumLen(Obj)

\* --------------------------------------------------- AnalogContext methods

\* The object a constructor call allocates: the first unused one.
NewObj == CHOOSE x \in Obj : cls[x] = "free" /\ \A y \in 1..(x - 1) : cls[y] # "free"

\* Mutant: reset() ignores its tile argument.
reset_analog_tile_ignored(c, t, at) == at
\* reset(), lines 95-96: the tile pointer.
reset_analog_tile(c, t, at) == IF t # None THEN [at EXCEPT ![c] = t] ELSE at

\* Mutant: reset() does not set the tile's back pointer.
reset_analog_ctx_unset(c, t, at, ac) == ac
\* reset(), line 97: the back pointer of the tile the context now points to.
reset_analog_ctx(c, t, at, ac) ==
    IF t # None THEN [ac EXCEPT ![reset_analog_tile(c, t, at)[c]] = c] ELSE ac

\* reset(), line 99: the input trace.
reset_analog_input(c, tr) == [tr EXCEPT ![c] = <<>>]

\* Mutant: reset() forgets the gradient trace.
reset_analog_grad_output_kept(c, tr) == tr
\* reset(), line 100: the gradient trace.
reset_analog_grad_output(c, tr) == [tr EXCEPT ![c] = <<>>]

\* The whole of reset(analog_tile = t) on context c, entered with the tile
\* pointers `at` (the caller may have assigned self.analog_tile just before).
reset(c, t, at) ==
    /\ analog_tile' = reset_analog_tile(c, t, at)
    /\ analog_ctx' = reset_analog_ctx(c, t, at, analog_ctx)
    /\ analog_input' = reset_analog_input(c, analog_input)
    /\ analog_grad_output' = reset_analog_grad_output(c, analog_grad_output)
    /\ pure' = [pure EXCEPT ![c] = TRUE]
    /\ nfwd' = [nfwd EXCEPT ![c] = 0]
    /\ npairs' = [npairs EXCEPT ![c] = 0]
    /\ ndef' = [ndef EXCEPT ![c] = 0]

\* Mutant: has_gradient() is off by one.
has_gradient_second(c) == Len(analog_input[c]) > 1
\* has_gradient(), line 104.
has_gradient(c) == Len(analog_input[c]) > 0

\* __init__, lines 72-77, on the object o that __new__ returned.
init(o, t) ==
    /\ cls' = [cls EXCEPT ![o] = "AnalogContext"]
    /\ use_torch_update' = [use_torch_update EXCEPT ![o] = FALSE]
    /\ use_indexed' = [use_indexed EXCEPT ![o] = FALSE]
    /\ reset(o, t, [analog_tile EXCEPT ![o] = t])
    /\ last' = Op(FALSE, 1, SelfRet, <<>>)
    /\ UNCHANGED <<tile_alive, is_cuda, delta_weights, saved>>

\* AnalogContext(tile): __new__ wraps the tile's weights in a fresh,
\* gradient-tracked object, __init__ binds it.
ConstructFresh(o, t) ==
    /\ cls[o] = "free" /\ o = NewObj
    /\ t \in LiveTiles
    /\ \E w \in get_weights(t) : data' = [data EXCEPT ![o] = w]
    /\ requires_grad' = [requires_grad EXCEPT ![o] = TRUE]
    /\ init(o, t)

\* AnalogContext(tile, parameter): __new__ re-labels the parameter in place,
\* leaving its data and requires_grad as they are; __init__ binds it.  The
\* parameter is an existing context, or a plain Parameter of the caller's
\* (data d, requires_grad rg), which takes the object o.
ConstructRelabel(o, t, d, rg) ==
    /\ t \in LiveTiles
    /\ \/ cls[o] = "free" /\ o = NewObj
       \/ cls[o] # "free" /\ d = data[o] /\ rg = requires_grad[o]
    /\ data' = [data EXCEPT ![o] = d]
    /\ requires_grad' = [requires_grad EXCEPT ![o] = rg]
    /\ init(o, t)

set_indexed(c, value) ==
    /\ c \in Contexts
    /\ use_indexed' = [use_indexed EXCEPT ![c] = value]
    /\ last' = Op(FALSE, 0, NoRet, <<>>)
    /\ UNCHANGED <<cls, data, requires_grad, analog_tile, use_torch_update,
                   analog_input, analog_grad_output, tileVars, saved, histVars>>

\* self.data.copy_(data): the contents change, the device does not.
set_data(c, v) ==
    /\ c \in Contexts
    /\ data' = [data EXCEPT ![c].val = v]
    /\ last' = Op(FALSE, 0, NoRet, <<>>)
    /\ UNCHANGED <<cls, requires_grad, analog_tile, use_torch_update, use_indexed,
                   analog_input, analog_grad_output, tileVars, saved, histVars>>

Reset(c, t) ==
    /\ c \in Contexts
    /\ t \in LiveTiles \cup {None}
    /\ last' = Op(FALSE, 1, NoRet, <<>>)
    /\ reset(c, t, analog_tile)
    /\ UNCHANGED <<cls, data, requires_grad, use_torch_update, use_indexed,
                   tile_alive, is_cuda, delta_weights, saved>>

\* Mutant: the copy carries the context's attributes along, as a default
\* copy of the object would.
Snapshot_shallow(c) == Ret("Parameter", data[c], analog_tile[c], analog_input[c], None)
\* Parameter(self.data): what __copy__ and __deepcopy__ both return.  A plain
\* Parameter carries the data and none of the context's attributes.
Snapshot(c) == Ret("Parameter", data[c], None, <<>>, None)

copy(c) ==
    /\ c \in Contexts
    /\ last' = Op(FALSE, 0, Snapshot(c), <<>>)
    /\ UNCHANGED <<ctxVars, tileVars, saved, histVars>>

Copy(c) == copy(c)
DeepCopy(c) == copy(c)

\* ------------------------------------------------------------ device moves
\* The tile object a migration hands back: the same object, or a new one.
NewTile == CHOOSE t \in Tile : ~tile_alive[t] /\ \A u \in 1..(t - 1) : tile_alive[u]
CanMigrate(out) ==
    \/ out \in {"self", "raise"}
    \/ out = "new" /\ \E t \in Tile : ~tile_alive[t]
Migrated(t, out) == IF out = "self" THEN t ELSE NewTile

\* cuda(), line 124: does the move migrate the tile?
CudaMigrates(c) == ~is_cuda[analog_tile[c]]

\* Mutant: cpu() migrates whenever there is a tile.
CpuMigrates_always(c) == analog_tile[c] # None
\* cpu(), line 140: does the move migrate the tile?
CpuMigrates(c) == analog_tile[c] # None /\ is_cuda[analog_tile[c]]

\* A move that leaves the tile alone: only self.data is assigned.
MoveNoop(c, d) ==
    /\ last' = Op(FALSE, 0, SelfRet, <<>>)
    /\ data' = [data EXCEPT ![c] = d]
    /\ UNCHANGED <<cls, requires_grad, analog_tile, use_torch_update, use_indexed,
                   analog_input, analog_grad_output, tileVars, saved, histVars>>

\* The tile's migration raised: what was assigned before it stays assigned.
MoveRaised(c, d) ==
    /\ last' = Op(TRUE, 0, NoRet, <<>>)
    /\ data' = [data EXCEPT ![c] = d]
    /\ UNCHANGED <<cls, requires_grad, analog_tile, use_torch_update, use_indexed,
                   analog_input, analog_grad_output, tileVars, saved, histVars>>

\* The tile migrated to the object t2 (cuda() lines 126-127, cpu() lines
\* 141-142): the pointer is assigned and reset(self.analog_tile) rebinds.
MoveDone(c, d, t2, toCuda) ==
    /\ last' = Op(FALSE, 1, SelfRet, <<>>)
    /\ data' = [data EXCEPT ![c] = d]
    /\ tile_alive' = [tile_alive EXCEPT ![t2] = TRUE]
    /\ is_cuda' = [is_cuda EXCEPT ![t2] = toCuda]
    /\ reset(c, t2, [analog_tile EXCEPT ![c] = t2])
    /\ UNCHANGED <<cls, requires_grad, use_torch_update, use_indexed, delta_weights,
                   saved>>

\* cuda() entered with self.data = d0; w is what get_weights() returns and
\* out is what analog_tile.cuda(device) does.
cuda(c, d0, w, out) ==
    IF CudaMigrates(c)
    THEN IF out = "raise" THEN MoveRaised(c, w)
         ELSE MoveDone(c, w, Migrated(analog_tile[c], out), TRUE)
    ELSE MoveNoop(c, d0)

\* cpu() entered with self.data = d0; out is what analog_tile.cpu() does.
cpu(c, d0, out) ==
    IF CpuMigrates(c)
    THEN IF out = "raise" THEN MoveRaised(c, ToDevice(d0, "cpu"))
         ELSE MoveDone(c, ToDevice(d0, "cpu"), Migrated(analog_tile[c], out), FALSE)
    ELSE MoveNoop(c, ToDevice(d0, "cpu"))

Cuda(c, out) ==
    /\ c \in Contexts
    /\ CanMigrate(out)
    /\ \E w \in get_weights(analog_tile[c]) : cuda(c, data[c], w, out)

Cpu(c, out) ==
    /\ c \in Contexts
    /\ CanMigrate(out)
    /\ cpu(c, data[c], out)

\* to(): dev = "none" stands for a call that names no device (a dtype only).
To(c, dev, out) ==
    /\ c \in Contexts
    /\ CanMigrate(out)
    /\ LET d1 == IF dev = "none" THEN data[c] ELSE ToDevice(data[c], dev)
       IN  IF dev = "cuda" /\ ~is_cuda[analog_tile[c]]
           THEN \E w \in get_weights(analog_tile[c]) : cuda(c, d1, w, out)
           ELSE IF dev = "cpu" /\ is_cuda[analog_tile[c]]
           THEN cpu(c, d1, out)
           ELSE MoveNoop(c, d1)

\* ---------------------------------------------------------- AnalogFunction
\* Mutant: forward() sets the mode flag and never clears it.
forward_use_torch_update_sticky(c, sw) == sw # None \/ use_torch_update[c]
\* forward(), lines 45-50: the update mode the call leaves in the context.
forward_use_torch_update(c, sw) == sw # None

\* forward(), lines 44-56: the tile routines the call invokes.
forward_calls(c, sw) ==
    (IF sw # None THEN <<"ensure_shared_weights">> ELSE <<>>)
    \o <<IF use_indexed[c] THEN "joint_forward_indexed" ELSE "joint_forward">>

\* analog_tile.get_runtime(): the offload flags the tile's configuration
\* holds at the time of the call.
Runtime == [offload_input : BOOLEAN, offload_gradient : BOOLEAN]

\* forward(), lines 58-61: the input as it is saved for backward.
forward_saved(x, runtime) == IF runtime.offload_input THEN ToDevice(x, "cpu") ELSE x

\* The history of pairs since the last reset of c: it stays pure while every
\* forward call on c is unshared and every backward call on c answers one of
\* them; the counts are kept only while it is pure.
CountForward(c, sw) ==
    LET ok == pure[c] /\ sw = None
    IN  /\ pure' = [pure EXCEPT ![c] = ok]
        /\ nfwd' = [nfwd EXCEPT ![c] = IF ok THEN nfwd[c] + 1 ELSE 0]
        /\ npairs' = [npairs EXCEPT ![c] = IF ok THEN npairs[c] ELSE 0]

CountBackward(ctx) ==
    LET c == ctx.analog_ctx
        ok == pure[c] /\ ctx.shared_weights = None /\ npairs[c] < nfwd[c]
    IN  /\ pure' = [pure EXCEPT ![c] = ok]
        /\ nfwd' = [nfwd EXCEPT ![c] = IF ok THEN nfwd[c] ELSE 0]
        /\ npairs' = [npairs EXCEPT ![c] = IF ok THEN npairs[c] + 1 ELSE 0]

\* Mutant: forward() already records its input in the context's trace.
Forward_recording(c, v, sw, runtime) ==
    /\ c \in Contexts
    /\ BagCardinality(saved) < MaxPending
    /\ LET t == analog_tile[c]
           x == Tensor(v, DeviceOf(t))
           ctx == [analog_ctx |-> c, analog_tile |-> t, shared_weights |-> sw,
                   saved_tensors |-> <<forward_saved(x, runtime)>>,
                   saved_analog_tensors |-> <<>>,
                   fwd_indexed |-> use_indexed[c],
                   offloaded |-> forward_saved(x, runtime) # x, backwards |-> 0]
       IN  /\ saved' = saved (+) SetToBag({ctx})
           /\ analog_input' = [analog_input EXCEPT ![c] = <<x>>]
    /\ use_torch_update' = [use_torch_update EXCEPT ![c] = forward_use_torch_update(c, sw)]
    /\ CountForward(c, sw)
    /\ last' = Op(FALSE, 0, NoRet, forward_calls(c, sw))
    /\ UNCHANGED <<cls, data, requires_grad, analog_tile, use_indexed,
                   analog_grad_output, tileVars, ndef>>

\* forward(ctx, analog_ctx = c, analog_tile = the tile of c, input_ = x,
\* shared_weights = sw): the call state ctx joins the saved ones.  Besides
\* the attributes forward() stores, the call state remembers the routine
\* family its forward used (fwd_indexed), whether its forward moved the input
\* to host memory (offloaded) and how many backward calls have run on it
\* (backwards).
Forward(c, v, sw, runtime) ==
    /\ c \in Contexts
    /\ BagCardinality(saved) < MaxPending
    /\ LET t == analog_tile[c]
           x == Tensor(v, DeviceOf(t))
           ctx == [analog_ctx |-> c, analog_tile |-> t, shared_weights |-> sw,
                   saved_tensors |-> <<forward_saved(x, runtime)>>,
                   saved_analog_tensors |-> <<>>,
                   fwd_indexed |-> use_indexed[c],
                   offloaded |-> forward_saved(x, runtime) # x, backwards |-> 0]
       IN  saved' = saved (+) SetToBag({ctx})
    /\ use_torch_update' = [use_torch_update EXCEPT ![c] = forward_use_torch_update(c, sw)]
    /\ CountForward(c, sw)
    /\ last' = Op(FALSE, 0, NoRet, forward_calls(c, sw))
    /\ UNCHANGED <<cls, data, requires_grad, analog_tile, use_indexed, analog_input,
                   analog_grad_output, tileVars, ndef>>

\* Mutant: backward() always takes the plain routine.
backward_calls_plain(ctx) ==
    (IF ctx.shared_weights # None THEN <<"ensure_shared_weights">> ELSE <<>>)
    \o <<"backward">>
\* backward(), lines 82-89: the routines called before the mode is decided.
backward_calls(ctx) ==
    (IF ctx.shared_weights # None THEN <<"ensure_shared_weights">> ELSE <<>>)
    \o <<IF use_indexed[ctx.analog_ctx] THEN "backward_indexed" ELSE "backward">>

\* Mutant: the direct update does not detach the delta-weight target.
update_calls_attached(ctx) ==
    <<"set_delta_weights",
      IF use_indexed[ctx.analog_ctx] THEN "update_indexed" ELSE "update">>
\* backward(), lines 97-102: the routines of the direct update.
update_calls(ctx) ==
    <<"set_delta_weights",
      IF use_indexed[ctx.analog_ctx] THEN "update_indexed" ELSE "update",
      "reset_delta_weights">>

\* The tile's delta-weight target after the routines `calls`, from target dw.
RECURSIVE DeltaAfter(_, _, _)
DeltaAfter(calls, dw, sh) ==
    IF calls = <<>> THEN dw
    ELSE DeltaAfter(Tail(calls),
                    IF Head(calls) = "set_delta_weights" THEN sh
                    ELSE IF Head(calls) = "reset_delta_weights" THEN None
                    ELSE dw,
                    sh)

\* Mutant: backward() takes the mode from its own call state.
backward_direct_own(ctx) == ctx.shared_weights # None
\* backward(), line 91: the mode of this call.
backward_direct(ctx) == use_torch_update[ctx.analog_ctx]

\* backward(), lines 76 and 92-93: the input handed to the update routine.
update_input(ctx, runtime) ==
    IF runtime.offload_input
    THEN ToDevice(ctx.saved_tensors[1], DeviceOf(ctx.analog_tile))
    ELSE ctx.saved_tensors[1]

\* Mutant: the gradient is always stored as a host copy.
store_gradients_host(g, runtime) == ToDevice(g, "cpu")
\* backward(), lines 107-110: the gradient as it is stored.
store_gradients(g, runtime) == IF runtime.offload_gradient THEN ToDevice(g, "cpu") ELSE g

\* What the autograd engine keeps of the call state after the call: all of it
\* under retain_graph, nothing otherwise.
Kept(ctx, retain, sat) ==
    IF retain
    THEN SetToBag({[ctx EXCEPT !.saved_analog_tensors = sat, !.backwards = @ + 1]})
    ELSE EmptyBag

\* backward(ctx, grad_output) with the mode flag set and no shared weights in
\* the call state: empty_like(None) raises at line 96.
BackwardRaise(ctx, retain) ==
    /\ backward_direct(ctx) /\ ctx.shared_weights = None
    /\ saved' = (saved (-) SetToBag({ctx})) (+) Kept(ctx, retain, ctx.saved_tensors)
    /\ CountBackward(ctx)
    /\ last' = Op(TRUE, 0, NoRet, backward_calls(ctx))
    /\ UNCHANGED <<ctxVars, tileVars, ndef>>

\* backward(), lines 91-102: the gradient is computed into a buffer shaped
\* like the shared weights and returned.
BackwardDirect(ctx, runtime, retain) ==
    /\ backward_direct(ctx) /\ ctx.shared_weights # None
    /\ LET calls == backward_calls(ctx) \o update_calls(ctx)
           t == ctx.analog_tile
       IN  /\ delta_weights' = [delta_weights EXCEPT
                                  ![t] = DeltaAfter(calls, @, ctx.shared_weights)]
           /\ last' = [Op(FALSE, 0,
                          Ret("grad", NoTensor, None, <<>>, ctx.shared_weights), calls)
                       EXCEPT !.update_input = update_input(ctx, runtime)]
    /\ saved' = (saved (-) SetToBag({ctx})) (+) Kept(ctx, retain, <<>>)
    /\ CountBackward(ctx)
    /\ UNCHANGED <<ctxVars, tile_alive, is_cuda, analog_ctx, ndef>>

\* backward(), lines 103-111: input and gradient join the traces; no weight
\* gradient is returned.
BackwardDeferred(ctx, g, runtime, retain) ==
    /\ ~backward_direct(ctx)
    /\ TotalTrace < MaxTrace
    /\ LET c == ctx.analog_ctx
           input_ == ctx.saved_tensors[1]
           grad_output == Tensor(g, DeviceOf(ctx.analog_tile))
       IN  /\ analog_grad_output' =
                 [analog_grad_output EXCEPT ![c] = Append(@, store_gradients(grad_output, runtime))]
           /\ analog_input' = [analog_input EXCEPT ![c] = Append(@, input_)]
           /\ ndef' = [ndef EXCEPT ![c] = @ + 1]
           /\ last' = Op(FALSE, 0,
                         Ret("grad", NoTensor, None, <<>>, None), backward_calls(ctx))
    /\ saved' = (saved (-) SetToBag({ctx})) (+) Kept(ctx, retain, <<>>)
    /\ CountBackward(ctx)
    /\ UNCHANGED <<cls, data, requires_grad, analog_tile, use_torch_update, use_indexed,
                   tileVars>>

Backward(ctx, g, runtime, retain) ==
    /\ ctx \in BagToSet(saved)
    /\ \/ BackwardRaise(ctx, retain)
       \/ BackwardDirect(ctx, runtime, retain)
       \/ BackwardDeferred(ctx, g, runtime, retain)

\* ----------------------------------------------------------- specification
Init ==
    /\ cls = [o \in Obj |-> "free"]
    /\ data = [o \in Obj |-> NoTensor]
    /\ requires_grad = [o \in Obj |-> FALSE]
    /\ analog_tile = [o \in Obj |-> None]
    /\ use_torch_update = [o \in Obj |-> FALSE]
    /\ use_indexed = [o \in Obj |-> FALSE]
    /\ analog_input = [o \in Obj |-> <<>>]
    /\ analog_grad_output = [o \in Obj |-> <<>>]
    /\ tile_alive = [t \in Tile |-> t = 1]
    /\ is_cuda = [t \in Tile |-> FALSE]
    /\ analog_ctx = [t \in Tile |-> None]
    /\ delta_weights = [t \in Tile |-> None]
    /\ saved = EmptyBag
    /\ last = Op(FALSE, 0, NoRet, <<>>)
    /\ nops = 0
    /\ pure = [o \in Obj |-> TRUE]
    /\ nfwd = [o \in Obj |-> 0]
    /\ npairs = [o \in Obj |-> 0]
    /\ ndef = [o \in Obj |-> 0]

\* Every operation counts towards the length of the run.
Tick == nops < MaxOps /\ nops' = nops + 1

Next ==
    \/ \E o \in Obj, t \in Tile : Tick /\ ConstructFresh(o, t)
    \/ \E o \in Obj, t \in Tile, w \in UserWeights, rg \in BOOLEAN :
          Tick /\ ConstructRelabel(o, t, Tensor(w, "cpu"), rg)
    \/ \E o \in Contexts, t \in Tile :
          Tick /\ ConstructRelabel(o, t, data[o], requires_grad[o])
    \/ \E c \in Obj, b \in BOOLEAN : Tick /\ set_indexed(c, b)
    \/ \E c \in Obj, v \in UserWeights \cup TileWeights : Tick /\ set_data(c, v)
    \/ \E c \in Obj, t \in Tile \cup {None} : Tick /\ Reset(c, t)
    \/ \E c \in Obj : Tick /\ Copy(c)
    \/ \E c \in Obj : Tick /\ DeepCopy(c)
    \/ \E c \in Obj, out \in {"self", "new", "raise"} : Tick /\ Cuda(c, out)
    \/ \E c \in Obj, out \in {"self", "new", "raise"} : Tick /\ Cpu(c, out)
    \/ \E c \in Obj, dev \in {"none", "cpu", "cuda"}, out \in {"self", "new", "raise"} :
          Tick /\ To(c, dev, out)
    \/ \E c \in Obj, v \in Val, sw \in Shape \cup {None}, runtime \in Runtime :
          Tick /\ Forward(c, v, sw, runtime)
    \/ \E ctx \in BagToSet(saved), g \in Val, runtime \in Runtime, retain \in BOOLEAN :
          Tick /\ Backward(ctx, g, runtime, retain)

Spec == Init /\ [][Next]_vars

\* ------------------------------------------------------------------ claims
\* C1: after N >= 1 forward/backward pairs without shared weights on a
\* context, with no reset or device move in between, both traces hold exactly
\* N entries and has_gradient() is true.
C1_DeferredPairsFillTraces ==
    \A c \in Contexts :
        (pure[c] /\ npairs[c] >= 1) =>
            /\ Len(analog_input[c]) = npairs[c]
            /\ Len(analog_grad_output[c]) = npairs[c]
            /\ has_gradient(c)

\* Two pairs have completed since the last reset and both left their entry.
C1_TwoPairs ==
    \E c \in Contexts :
        pure[c] /\ npairs[c] = 2 /\ nfwd[c] = 2 /\ Len(analog_input[c]) = 2

\* C2: backward of a call state whose forward was given shared weights leaves
\* both traces as they were and returns a gradient shaped like those weights.
C2_SharedPairIsDirect ==
    [][\A ctx \in BagToSet(saved), g \in Val, runtime \in Runtime, retain \in BOOLEAN :
          (ctx.shared_weights # None /\ Backward(ctx, g, runtime, retain)) =>
              /\ analog_input' = analog_input
              /\ analog_grad_output' = analog_grad_output
              /\ ~last'.raised
              /\ last'.ret.kind = "grad"
              /\ last'.ret.shape = ctx.shared_weights]_vars

\* C3: the two traces of a context have the same length in every state.
C3_TracesAligned ==
    \A c \in Obj : Len(analog_input[c]) = Len(analog_grad_output[c])

\* Both traces hold two entries after a deferred backward.
C3_TwoEntries ==
    \E c \in Contexts :
        /\ Len(analog_input[c]) = 2
        /\ Len(analog_grad_output[c]) = 2
        /\ last.ret.kind = "grad"

\* Is s a prefix of r?
IsPrefix(s, r) == Len(s) <= Len(r) /\ SubSeq(r, 1, Len(s)) = s

\* C4: the traces form a two-state machine.  has_gradient() is true exactly
\* when a deferred backward has run since the last reset; a step that resets
\* leaves both traces empty, a deferred backward appends exactly one entry to
\* each, a backward in direct mode leaves them alone, and without a reset the
\* traces only grow.
C4_HasGradientIffDeferred ==
    \A c \in Contexts :
        /\ has_gradient(c) <=> ndef[c] > 0
        /\ ndef[c] = 0 => analog_input[c] = <<>> /\ analog_grad_output[c] = <<>>

C4_Step ==
    /\ \A c \in Obj :
          IF last'.resets > 0
          THEN analog_input'[c] = <<>> /\ analog_grad_output'[c] = <<>>
          ELSE /\ IsPrefix(analog_input[c], analog_input'[c])
               /\ IsPrefix(analog_grad_output[c], analog_grad_output'[c])
    \* a backward that returned no weight gradient: the deferred mode
    /\ (last'.ret.kind = "grad" /\ last'.ret.shape = None) =>
          \E c \in Contexts :
              /\ Len(analog_input'[c]) = Len(analog_input[c]) + 1
              /\ Len(analog_grad_output'[c]) = Len(analog_grad_output[c]) + 1
              /\ has_gradient(c)'
              /\ \A o \in Obj \ {c} :
                    /\ analog_input'[o] = analog_input[o]
                    /\ analog_grad_output'[o] = analog_grad_output[o]
    \* a backward that returned a weight gradient, or raised: the direct mode
    /\ (last'.ret.kind = "grad" /\ last'.ret.shape # None) \/ (last'.raised /\ last'.calls # <<>>) =>
          /\ analog_input' = analog_input
          /\ analog_grad_output' = analog_grad_output

C4_TraceMachine == [][C4_Step]_vars /\ []C4_HasGradientIffDeferred

\* A deferred backward has just put a context with empty traces into the
\* accumulating state.
C4_Accumulating ==
    \E c \in Contexts :
        /\ ndef[c] = 1 /\ has_gradient(c)
        /\ last.ret.kind = "grad" /\ last.ret.shape = None

\* The context is bound to t, t points back to it, and its traces are empty.
Bound(c, t, at, ac, ai, ag) ==
    at[c] = t /\ ac[t] = c /\ ai[c] = <<>> /\ ag[c] = <<>>

\* C5: when an operation that calls reset completes, be it a construction, a
\* reset with a tile, or a device move that migrates the tile, the context
\* points to that tile, the tile points back to the context, and both traces
\* are empty.
C5_RebindEstablishesBinding ==
    [][last'.resets > 0 => \A c \in Obj :
          /\ \A t \in Tile :
                ( \/ ConstructFresh(c, t)
                  \/ \E d \in {data'[c]}, rg \in BOOLEAN : ConstructRelabel(c, t, d, rg)
                  \/ Reset(c, t) ) =>
                Bound(c, t, analog_tile', analog_ctx', analog_input', analog_grad_output')
          /\ \A out \in {"self", "new"} :
                LET t2 == Migrated(analog_tile[c], out)
                IN  /\ ((Cuda(c, out) \/ To(c, "cuda", out)) /\ CudaMigrates(c)) =>
                          /\ is_cuda'[t2]
                          /\ Bound(c, t2, analog_tile', analog_ctx', analog_input',
                                   analog_grad_output')
                    /\ ((Cpu(c, out) \/ To(c, "cpu", out)) /\ CpuMigrates(c)) =>
                          /\ ~is_cuda'[t2]
                          /\ Bound(c, t2, analog_tile', analog_ctx', analog_input',
                                   analog_grad_output')]_vars

\* A move has migrated the tile into a new tile object and rebound to it.
C5_MovedToNewTile ==
    \E c \in Contexts :
        /\ last.resets = 1 /\ last.ret = SelfRet
        /\ analog_tile[c] = NTile /\ is_cuda[NTile]
        /\ Bound(c, NTile, analog_tile, analog_ctx, analog_input, analog_grad_output)

\* C6: in every state, a context points to a tile exactly when that tile
\* points back to the context.
C6_BindingIsMutual ==
    \A c \in Contexts, t \in LiveTiles : analog_tile[c] = t <=> analog_ctx[t] = c

\* C7: reset leaves both traces empty; with a tile it binds the context and
\* the tile to each other, without one it leaves the binding alone; the
\* flags and the weight data are not touched.
C7_ResetPostAndFrame ==
    [][\A c \in Obj, t \in Tile \cup {None} :
          Reset(c, t) =>
              /\ analog_input'[c] = <<>> /\ analog_grad_output'[c] = <<>>
              /\ t # None => analog_tile'[c] = t /\ analog_ctx'[t] = c
              /\ t = None => analog_tile' = analog_tile /\ analog_ctx' = analog_ctx
              /\ use_indexed' = use_indexed
              /\ use_torch_update' = use_torch_update
              /\ data' = data]_vars

\* A reset has just run on a context whose indexed flag is set and whose
\* data was overwritten by the user.
C7_ResetRan ==
    \E c \in Contexts :
        /\ last.resets = 1 /\ last.ret = NoRet
        /\ use_indexed[c] /\ data[c].val \in UserWeights
        /\ analog_input[c] = <<>>

\* C8: copy and deepcopy return a plain Parameter carrying the context's
\* weight data, with no tile and no traces, and change nothing in the context
\* or in any tile.
C8_CopyIsDetachedSnapshot ==
    [][\A c \in Obj :
          (Copy(c) \/ DeepCopy(c)) =>
              /\ last'.ret.kind = "Parameter"
              /\ last'.ret.data = data[c]
              /\ last'.ret.analog_tile = None
              /\ last'.ret.trace = <<>>
              /\ ctxVars' = ctxVars
              /\ tileVars' = tileVars]_vars

\* A context with a tile and non-empty traces has just been copied.
C8_CopiedWhileAccumulating ==
    \E c \in Contexts :
        /\ last.ret.kind = "Parameter" /\ last.ret.data = data[c]
        /\ analog_tile[c] # None /\ has_gradient(c)

\* The move named by dev is requested of context c.
MoveTo(c, dev, out) ==
    \/ dev = "cuda" /\ (Cuda(c, out) \/ To(c, "cuda", out))
    \/ dev = "cpu" /\ (Cpu(c, out) \/ To(c, "cpu", out))

\* C9: a move towards the device the tile is already on changes neither the
\* traces, the flags, the tile pointer nor any back pointer and does not
\* reset; and a move that completes leaves the tile on the device it names,
\* so that the same move issued again is such a move.
C9_SameDeviceMoveIsNoop ==
    [][\A c \in Obj, dev \in Device, out \in {"self", "new", "raise"} :
          \* a move returns the context or raises
          ((last'.ret = SelfRet \/ last'.raised) /\ MoveTo(c, dev, out)) =>
              /\ DeviceOf(analog_tile[c]) = dev =>
                    /\ analog_input' = analog_input
                    /\ analog_grad_output' = analog_grad_output
                    /\ use_indexed' = use_indexed
                    /\ use_torch_update' = use_torch_update
                    /\ analog_tile' = analog_tile
                    /\ analog_ctx' = analog_ctx
                    /\ last'.resets = 0 /\ ~last'.raised
              /\ ~last'.raised => is_cuda'[analog_tile'[c]] = (dev = "cuda")]_vars

\* A move has just been answered without a reset on a context that holds
\* traces, with the tile on the accelerator.
C9_NoopWithTraces ==
    \E c \in Contexts :
        /\ last.ret = SelfRet /\ last.resets = 0 /\ ~last.raised
        /\ has_gradient(c) /\ is_cuda[analog_tile[c]]

\* C10: a move that raises leaves the weight data and the tile pointer as
\* they were before the move, and no move resets before the step that can
\* raise.
C10_FailedMoveIsAtomic ==
    [][\A c \in Obj, dev \in Device :
          (MoveTo(c, dev, "raise") /\ last'.raised) =>
              /\ data'[c] = data[c]
              /\ analog_tile'[c] = analog_tile[c]
              /\ last'.resets = 0]_vars

Count(calls, name) == Cardinality({i \in 1..Len(calls) : calls[i] = name})

\* The last three routines of `calls`.
LastThree(calls) == SubSeq(calls, Len(calls) - 2, Len(calls))

\* C12: no tile has a delta-weight target set after any operation; a
\* direct-mode backward ends with set target, one update (indexed or plain),
\* clear target, and calls each of them once; no other operation calls any of
\* the three.
C12_TargetCleared == \A t \in Tile : delta_weights[t] = None

C12_Step ==
    LET calls == last'.calls
        updates == Count(calls, "update") + Count(calls, "update_indexed")
    IN  IF last'.ret.kind = "grad" /\ last'.ret.shape # None
        THEN /\ Len(calls) >= 3
             /\ LastThree(calls) \in {<<"set_delta_weights", u, "reset_delta_weights">> :
                                         u \in {"update", "update_indexed"}}
             /\ Count(calls, "set_delta_weights") = 1
             /\ Count(calls, "reset_delta_weights") = 1
             /\ updates = 1
        ELSE /\ Count(calls, "set_delta_weights") = 0
             /\ Count(calls, "reset_delta_weights") = 0
             /\ updates = 0

C12_DeltaTargetOnlyInDirectBackward == []C12_TargetCleared /\ [][C12_Step]_vars

\* A direct-mode backward has just run its indexed update and the target of
\* its tile is cleared.
C12_DirectBackwardDone ==
    /\ last.ret.kind = "grad" /\ last.ret.shape # None
    /\ Count(last.calls, "update_indexed") = 1
    /\ \A t \in Tile : delta_weights[t] = None

\* The step is a forward call / a backward call, as its outcome tells.
IsForwardStep == last'.calls # <<>> /\ last'.ret = NoRet /\ ~last'.raised
IsBackwardStep == last'.ret.kind = "grad" \/ (last'.raised /\ last'.calls # <<>>)

\* The routines of `calls` among `wanted` are exactly one call of `r`.
OnlyOnce(calls, r, wanted) ==
    \A w \in wanted : Count(calls, w) = IF w = r THEN 1 ELSE 0

\* C13: set_indexed(v) sets the flag to v and nothing but set_indexed or a
\* construction changes it; a forward call invokes exactly one forward
\* routine, the indexed one iff the flag is set, and a backward call exactly
\* one backward routine, the indexed one iff the flag is set, and in direct
\* mode the update routine of the same family and never the other.
C13_RoutingFollowsFlag ==
    [][\A c \in Contexts :
          /\ \A b \in BOOLEAN :
                (last'.calls = <<>> /\ set_indexed(c, b)) => use_indexed'[c] = b
          /\ use_indexed'[c] # use_indexed[c] =>
                \/ \E b \in BOOLEAN : set_indexed(c, b)
                \/ last'.resets = 1 /\ ~use_indexed'[c]
          /\ IsForwardStep =>
                /\ OnlyOnce(last'.calls,
                            IF use_indexed[c] THEN "joint_forward_indexed" ELSE "joint_forward",
                            {"joint_forward_indexed", "joint_forward"})
                /\ OnlyOnce(last'.calls, "none",
                            {"backward", "backward_indexed", "update", "update_indexed"})
          /\ IsBackwardStep =>
                /\ OnlyOnce(last'.calls,
                            IF use_indexed[c] THEN "backward_indexed" ELSE "backward",
                            {"backward_indexed", "backward"})
                /\ OnlyOnce(last'.calls,
                            IF last'.ret.shape = None THEN "none"
                            ELSE IF use_indexed[c] THEN "update_indexed" ELSE "update",
                            {"update_indexed", "update"})
                /\ OnlyOnce(last'.calls, "none",
                            {"joint_forward_indexed", "joint_forward"})]_vars

\* With the flag set, a direct-mode backward has just gone through the
\* indexed backward and update routines.
C13_IndexedBackward ==
    \E c \in Contexts :
        /\ use_indexed[c]
        /\ last.ret.kind = "grad" /\ last.ret.shape # None
        /\ Count(last.calls, "backward_indexed") = 1
        /\ Count(last.calls, "update_indexed") = 1

\* C14: a forward call leaves the weight data, both traces, use_indexed and
\* the binding of every context and tile as they were; it writes only
\* use_torch_update and the saved call states, to which it adds one.
C14_ForwardFrame ==
    [][IsForwardStep =>
          /\ data' = data
          /\ analog_input' = analog_input
          /\ analog_grad_output' = analog_grad_output
          /\ use_indexed' = use_indexed
          /\ analog_tile' = analog_tile
          /\ analog_ctx' = analog_ctx
          /\ UNCHANGED <<cls, requires_grad, tile_alive, is_cuda, delta_weights>>
          /\ BagCardinality(saved') = BagCardinality(saved) + 1]_vars

\* An indexed forward call with shared weights has just run on a context
\* that holds traces.
C14_ForwardWhileAccumulating ==
    \E c \in Contexts :
        /\ last.calls = <<"ensure_shared_weights", "joint_forward_indexed">>
        /\ last.ret = NoRet /\ ~last.raised
        /\ has_gradient(c) /\ use_torch_update[c] /\ data[c].val \in TileWeights

\* C15: whenever a backward call runs, the mode flag it reads is set if and
\* only if its own forward call was given shared weights.
C15_ModeFromOwnForward ==
    [][IsBackwardStep =>
          \A ctx \in BagToSet(saved), g \in Val, runtime \in Runtime, retain \in BOOLEAN :
              Backward(ctx, g, runtime, retain) =>
                  (use_torch_update[ctx.analog_ctx] <=> ctx.shared_weights # None)]_vars

\* C16: a backward call on a call state whose forward moved the input to host
\* memory uses that input on the device of the call state's tile: in direct
\* mode the tensor handed to the update routine, in deferred mode the tensor
\* appended to the input trace.
C16_OffloadedInputReturns ==
    [][IsBackwardStep /\ ~last'.raised =>
          \A ctx \in BagToSet(saved), g \in Val, runtime \in Runtime, retain \in BOOLEAN :
              LET c == ctx.analog_ctx
                  dev == DeviceOf(ctx.analog_tile)
              IN  /\ (ctx.offloaded /\ BackwardDirect(ctx, runtime, retain)) =>
                        last'.update_input.dev = dev
                  /\ (ctx.offloaded /\ BackwardDeferred(ctx, g, runtime, retain)) =>
                        analog_input'[c][Len(analog_input'[c])].dev = dev]_vars

\* C17: a backward call on a call state that has already been through a
\* backward call neither appends to the traces nor returns a weight gradient.
C17_SavedStateSingleUse ==
    [][IsBackwardStep =>
          \A ctx \in BagToSet(saved), g \in Val, runtime \in Runtime, retain \in BOOLEAN :
              (ctx.backwards >= 1 /\ Backward(ctx, g, runtime, retain)) =>
                  /\ analog_input' = analog_input
                  /\ analog_grad_output' = analog_grad_output
                  /\ ~(last'.ret.kind = "grad" /\ last'.ret.shape # None)]_vars

\* C18: a backward call that finds the mode flag set and no shared weights in
\* its call state raises: it returns nothing, leaves both traces as they
\* were, and never sets the tile's delta-weight target.
C18_MissingSharedWeightsRaises ==
    [][IsBackwardStep =>
          \A ctx \in BagToSet(saved) :
              (use_torch_update[ctx.analog_ctx] /\ ctx.shared_weights = None) =>
                  \A g \in Val, runtime \in Runtime, retain \in BOOLEAN :
                      Backward(ctx, g, runtime, retain) =>
                          /\ last'.raised /\ last'.ret = NoRet
                          /\ analog_input' = analog_input
                          /\ analog_grad_output' = analog_grad_output
                          /\ Count(last'.calls, "set_delta_weights") = 0
                          /\ delta_weights'[ctx.analog_tile] = None]_vars

\* A backward call has just raised on a context that holds traces and whose
\* mode flag is set.
C18_RaisedWhileAccumulating ==
    \E c \in Contexts :
        /\ last.raised /\ last.calls # <<>>
        /\ use_torch_update[c] /\ has_gradient(c)
        /\ delta_weights[analog_tile[c]] = None

\* C19: every construction, from the tile's weights or by re-labelling an
\* existing parameter o (whose data it keeps), yields a context that is
\* gradient-tracked, points to the supplied tile, has empty traces and has
\* both flags off.
C19_ConstructedContext ==
    [][(last'.resets = 1 /\ last'.ret = SelfRet) =>
          \A o \in Obj, t \in Tile :
              ( \/ ConstructFresh(o, t)
                \/ \E rg \in BOOLEAN : ConstructRelabel(o, t, data'[o], rg) ) =>
                  /\ cls'[o] = "AnalogContext"
                  /\ requires_grad'[o]
                  /\ analog_tile'[o] = t
                  /\ analog_input'[o] = <<>> /\ analog_grad_output'[o] = <<>>
                  /\ ~use_indexed'[o] /\ ~use_torch_update'[o]]_vars

\* C20: a backward call goes through the routine family its own forward call
\* used: the indexed backward (and update) iff the forward was indexed, and
\* never a routine of the other family.
C20_PairUsesOneFamily ==
    [][IsBackwardStep =>
          \A ctx \in BagToSet(saved), g \in Val, runtime \in Runtime, retain \in BOOLEAN :
              Backward(ctx, g, runtime, retain) =>
                  IF ctx.fwd_indexed
                  THEN /\ Count(last'.calls, "backward_indexed") = 1
                       /\ Count(last'.calls, "backward") = 0
                       /\ Count(last'.calls, "update") = 0
                  ELSE /\ Count(last'.calls, "backward") = 1
                       /\ Count(last'.calls, "backward_indexed") = 0
                       /\ Count(last'.calls, "update_indexed") = 0]_vars

====
